---- MODULE Spec2Model ----
(***************************************************************************)
(* Model of imgui_vulkan: Application::run(), Window::show(),              *)
(* Window::draw() and the parts of class Vulkan they drive.                *)
(* External libraries (SDL2, Vulkan, Dear ImGui) are the environment: each *)
(* call into them returns a result drawn from a small set.                 *)
(***************************************************************************)
EXTENDS Integers, Sequences, FiniteSets, TLC

(* ---------------------------- bounds ----------------------------------- *)
MaxArrivals == 2      \* SDL events that arrive during one run
MaxGpus == 2          \* physical devices the driver may enumerate
MaxImageCount == 2    \* swapchain images the driver may hand out

(* ------------------------ program constants ---------------------------- *)
VK_SUCCESS == 0
VK_THREAD_IDLE_KHR == 1000268000
VK_ERROR_DEVICE_LOST == -4
VK_SUBOPTIMAL_KHR == 1000001003
VK_ERROR_OUT_OF_DATE_KHR == -1000001004
min_image_count_ == 2
DefaultErrorCode == -1     \* GUIError's default code
NoWindowCode == -3
StdExceptionCode == -1
UnknownObjectCode == -2

VARIABLES
  pc,                   \* position of the (single) thread
  app_window,           \* Application::window_ : "null" | "window"
  show_called,          \* Window::show() was entered
  exc,                  \* exception in flight / caught by run()
  exit_code,            \* value returned by Application::run(), once pc = "done"
  out_stdout,           \* messages written to stdout
  out_stderr,           \* messages written to stderr
  running_,             \* Window::running_
  window_,              \* Window::window_ : "null" | "valid"
  vulkan_,              \* Window::vulkan_ : "null" | "valid"
  guard_armed,          \* show()'s scope_guard has been constructed
  gpus,                 \* local vector of enumerated GPUs (Vulkan ctor)
  physical_device_,     \* Vulkan::physical_device_ : 0 = nullptr, else index
  swap_chain_rebuild_,  \* Vulkan::swap_chain_rebuild_
  SemaphoreIndex,       \* main_window_data_.SemaphoreIndex
  FrameIndex,           \* main_window_data_.FrameIndex
  ImageCount,           \* main_window_data_.ImageCount
  fences,               \* main_window_data_.Frames[i].Fence, i = index - 1
  vk_log,               \* calls of the latest step that entered the Vulkan wrapper
  events,               \* SDL event queue
  arrivals,             \* number of events that arrived so far
  win_size,             \* what SDL_GetWindowSize reports
  DisplaySize,          \* ImDrawData::DisplaySize of the current frame
  setup_log,            \* setup steps of show() completed, in order
  teardown_log,         \* calls made by the scope guard, in order
  iter_log,             \* calls made in the current event-loop iteration
  on_gui_calls,         \* on_gui() calls made by the current draw() call
  draw_done,            \* a draw() call has returned to show()'s loop
  close_called,         \* Window::close() was called while show() ran
  quit_processed        \* draw() processed a quit/close event of this window

appVars == <<app_window, show_called, exit_code, out_stdout, out_stderr>>
winVars == <<running_, window_, vulkan_, guard_armed>>
gpuVars == <<gpus, physical_device_>>
swapVars == <<swap_chain_rebuild_, SemaphoreIndex, FrameIndex, ImageCount,
             fences>>
envVars == <<events, arrivals, win_size>>
histVars == <<setup_log, teardown_log, iter_log, on_gui_calls, draw_done,
              close_called, quit_processed, vk_log>>
vars == <<pc, exc, appVars, winVars, gpuVars, swapVars, envVars, DisplaySize,
          histVars>>

(* --------------------------- exceptions -------------------------------- *)
NoExc == [kind |-> "none", code |-> 0]
GUIError(code) == [kind |-> "GUIError", code |-> code]
StdException == [kind |-> "std", code |-> 0]
UnknownObject == [kind |-> "other", code |-> 0]

\* variant: every non-zero result throws
check_vk_result_ThrowsOnNonZero(err) ==
  [throws |-> err # 0, warns |-> FALSE, code |-> err]

\* Vulkan::check_vk_result: 0 returns, negative throws GUIError(err),
\* positive only prints to stderr.
check_vk_result(err) ==
  IF err = 0 THEN [throws |-> FALSE, warns |-> FALSE, code |-> 0]
  ELSE IF err < 0 THEN [throws |-> TRUE, warns |-> FALSE, code |-> err]
  ELSE [throws |-> FALSE, warns |-> TRUE, code |-> 0]

VkWarning == "[vulkan] Error: VkResult"
Warn(err) == IF check_vk_result(err).warns THEN {VkWarning} ELSE {}

\* results an ordinary Vulkan call may return
VkResults == {VK_SUCCESS, VK_THREAD_IDLE_KHR, VK_ERROR_DEVICE_LOST}
\* results of vkAcquireNextImageKHR / vkQueuePresentKHR
SwapResults == VkResults \cup {VK_SUBOPTIMAL_KHR, VK_ERROR_OUT_OF_DATE_KHR}

\* one Vulkan call as vk_log records it: its result, whether the result was
\* handed to check_vk_result, and the semaphore set, image and fence state
\* it was made with (-1 / "n/a" where the call has none)
VkCall(call, result, checked) ==
  [call |-> call, result |-> result, checked |-> checked, sem |-> -1,
   image |-> -1, fence |-> "n/a"]
VkFrameCall(call, result, checked, sem, image, fence) ==
  [call |-> call, result |-> result, checked |-> checked, sem |-> sem,
   image |-> image, fence |-> fence]

\* ImGui_ImplVulkanH_CreateOrResizeWindow creates every frame's fence with
\* VK_FENCE_CREATE_SIGNALED_BIT
NewFences(n) == [i \in 1..n |-> "signaled"]

(* ----------------------------- events ---------------------------------- *)
ThisWindowID == 1
OtherWindowID == 2
SDL_QUIT == [type |-> "SDL_QUIT", event |-> "none", windowID |-> 0]
CloseEvent(id) ==
  [type |-> "SDL_WINDOWEVENT", event |-> "SDL_WINDOWEVENT_CLOSE", windowID |-> id]
ResizeEvent ==
  [type |-> "SDL_WINDOWEVENT", event |-> "SDL_WINDOWEVENT_RESIZED",
   windowID |-> ThisWindowID]
EventTypes == {SDL_QUIT, CloseEvent(ThisWindowID), CloseEvent(OtherWindowID),
               ResizeEvent}

\* the value draw() assigns to running_ for an event
KeepsRunning(e) ==
  /\ e.type # "SDL_QUIT"
  /\ ~(e.type = "SDL_WINDOWEVENT" /\ e.event = "SDL_WINDOWEVENT_CLOSE"
       /\ e.windowID = ThisWindowID)

Sizes == {0, 1}
SizePairs == [w : Sizes, h : Sizes]
DisplaySizes == [x : Sizes, y : Sizes]

(* ------------------------------ Init ----------------------------------- *)
Init ==
  /\ pc = "run"
  /\ app_window \in {"null", "window"}
  /\ show_called = FALSE
  /\ exc = NoExc
  /\ exit_code = 0
  /\ out_stdout = {}
  /\ out_stderr = {}
  /\ running_ = FALSE
  /\ window_ = "null"
  /\ vulkan_ = "null"
  /\ guard_armed = FALSE
  /\ gpus = <<>>
  /\ physical_device_ = 0
  /\ swap_chain_rebuild_ = FALSE
  /\ SemaphoreIndex = 0
  /\ FrameIndex = 0
  /\ ImageCount = 0
  /\ fences = <<>>
  /\ vk_log = <<>>
  /\ events = <<>>
  /\ arrivals = 0
  /\ win_size = [w |-> 1, h |-> 1]
  /\ DisplaySize = [x |-> 0, y |-> 0]
  /\ setup_log = <<>>
  /\ teardown_log = <<>>
  /\ iter_log = <<>>
  /\ on_gui_calls = 0
  /\ draw_done = FALSE
  /\ close_called = FALSE
  /\ quit_processed = FALSE

(* ------------------------- environment --------------------------------- *)
\* positions inside show()'s loop
LoopPcs == {"loop", "poll", "on_gui", "before_render_frame", "render_frame",
            "present_frame"}

\* the user or the window system posts an event.  The queue is read only by
\* SDL_PollEvent in draw(), so an event posted at any other moment is the
\* same as one posted just before the next poll.
EventArrives ==
  /\ pc = "poll"
  /\ arrivals < MaxArrivals
  /\ \E e \in EventTypes : events' = Append(events, e)
  /\ arrivals' = arrivals + 1
  /\ UNCHANGED <<pc, exc, appVars, winVars, gpuVars, swapVars, win_size,
                 DisplaySize, histVars>>

\* the window is resized or minimised.  The size is read only by
\* maybe_resize_swap_chain, right after a poll that returned an event and
\* only when swap_chain_rebuild_ is set: a resize is taken just before the read.
WindowResized ==
  /\ pc = "poll"
  /\ swap_chain_rebuild_
  /\ events # <<>>
  /\ \E s \in SizePairs : s # win_size /\ win_size' = s
  /\ UNCHANGED <<pc, exc, appVars, winVars, gpuVars, swapVars, events,
                 arrivals, DisplaySize, histVars>>

(* ------------------------ Application::run ----------------------------- *)
\* entry of run(): the null check, then the call of show()
RunStart ==
  /\ pc = "run"
  /\ IF app_window = "null"
       THEN /\ out_stderr' = out_stderr \cup {"No window given"}
            /\ exit_code' = NoWindowCode
            /\ pc' = "done"
            /\ UNCHANGED show_called
       ELSE /\ show_called' = TRUE
            /\ pc' = "SDL_CreateWindow"
            /\ UNCHANGED <<out_stderr, exit_code>>
  /\ UNCHANGED <<exc, app_window, out_stdout, winVars, gpuVars, swapVars,
                 envVars, DisplaySize, histVars>>

\* variant: the std::exception handler placed before the GUIError handler
CatchExitCode_BaseFirst(e) ==
  IF e.kind \in {"GUIError", "std"} THEN StdExceptionCode
  ELSE UnknownObjectCode

\* the exit code of run()'s handlers, tried in the order of the catch clauses
CatchExitCode(e) ==
  IF e.kind = "GUIError" THEN e.code
  ELSE IF e.kind = "std" THEN StdExceptionCode
  ELSE UnknownObjectCode

\* the stream each handler prints to: fmt::print without a FILE* is stdout
CatchStdout(e) ==
  IF e.kind = "GUIError" THEN {"GUIError"}
  ELSE IF e.kind = "std" THEN {"Exception caught"}
  ELSE {}

CatchStderr(e) ==
  IF e.kind \in {"GUIError", "std"} THEN {} ELSE {"Unknown thrown object!"}

\* show() returned or threw: the rest of run()
RunFinish ==
  /\ pc = "catch"
  /\ IF exc = NoExc
       THEN /\ exit_code' = 0
            /\ UNCHANGED <<out_stdout, out_stderr>>
       ELSE /\ exit_code' = CatchExitCode(exc)
            /\ out_stdout' = out_stdout \cup CatchStdout(exc)
            /\ out_stderr' = out_stderr \cup CatchStderr(exc)
  /\ pc' = "done"
  /\ UNCHANGED <<exc, app_window, show_called, winVars, gpuVars, swapVars,
                 envVars, DisplaySize, histVars>>

(* --------------------------- Window::show ------------------------------ *)
\* the order of show()'s setup steps
SetupOrder ==
  <<"SDL_CreateWindow", "vkCreateInstance", "SelectGPU", "SelectQueueFamily",
    "vkCreateDevice", "vkCreateDescriptorPool", "create_surface",
    "create_framebuffers", "CreateContext", "init", "upload_fonts">>

\* a setup step completed: show() goes on with the next one
SetupOk(step, next) ==
  /\ setup_log' = Append(setup_log, step)
  /\ pc' = next
  /\ exc' = exc

\* a setup step threw: no scope guard exists yet, run() catches
SetupThrow(e) ==
  /\ exc' = e
  /\ pc' = "catch"
  /\ UNCHANGED setup_log

\* variant: the VkResult is not checked and show() goes on after a failure
SetupVkCall_Unchecked(err, step, next) ==
  /\ out_stderr' = out_stderr \cup Warn(err)
  /\ vk_log' = <<VkCall(step, err, TRUE)>>
  /\ setup_log' = IF err < 0 THEN setup_log ELSE Append(setup_log, step)
  /\ pc' = next
  /\ exc' = exc

\* err = vkXxx(...); check_vk_result(err); during setup
SetupVkCall(err, step, next) ==
  /\ out_stderr' = out_stderr \cup Warn(err)
  /\ vk_log' = <<VkCall(step, err, TRUE)>>
  /\ IF check_vk_result(err).throws
       THEN SetupThrow(GUIError(err))
       ELSE SetupOk(step, next)

SDL_CreateWindow ==
  /\ pc = "SDL_CreateWindow"
  /\ \E created \in BOOLEAN :
       IF created
         THEN window_' = "valid" /\ SetupOk("SDL_CreateWindow", "vkCreateInstance")
         ELSE window_' = "null" /\ SetupThrow(GUIError(DefaultErrorCode))
  /\ UNCHANGED <<appVars, running_, vulkan_, guard_armed, gpuVars, swapVars,
                 envVars, DisplaySize, teardown_log, iter_log, on_gui_calls,
                 draw_done, close_called, quit_processed,
                 vk_log>>

\* std::vector / std::make_unique may throw std::bad_alloc, then vkCreateInstance
vkCreateInstance ==
  /\ pc = "vkCreateInstance"
  /\ \/ /\ SetupThrow(StdException)
        /\ UNCHANGED <<out_stderr, vk_log>>
     \/ \E err \in VkResults :
          SetupVkCall(err, "vkCreateInstance", "SelectGPU")
  /\ UNCHANGED <<app_window, show_called, exit_code, out_stdout, winVars,
                 gpuVars, swapVars, envVars, DisplaySize, teardown_log,
                 iter_log, on_gui_calls, draw_done, close_called,
                 quit_processed>>

GpuTypes == {"DISCRETE_GPU", "INTEGRATED_GPU"}
GpuLists == UNION {[1..n -> GpuTypes] : n \in 0..MaxGpus}

\* the "Select GPU" loop: the first discrete GPU, else physical_device_ keeps
\* the value it had (nullptr)
SelectPhysicalDevice(gs, current) ==
  IF \E i \in 1..Len(gs) : gs[i] = "DISCRETE_GPU"
    THEN CHOOSE i \in 1..Len(gs) :
           /\ gs[i] = "DISCRETE_GPU"
           /\ \A j \in 1..(i - 1) : gs[j] # "DISCRETE_GPU"
    ELSE current

SelectGPU ==
  /\ pc = "SelectGPU"
  /\ \E err \in VkResults, gs \in GpuLists :
       /\ out_stderr' = out_stderr \cup Warn(err)
       /\ vk_log' = <<VkCall("vkEnumeratePhysicalDevices", err, TRUE)>>
       /\ IF check_vk_result(err).throws
            THEN SetupThrow(GUIError(err)) /\ UNCHANGED gpuVars
            ELSE IF Len(gs) = 0
              THEN SetupThrow(GUIError(DefaultErrorCode)) /\ UNCHANGED gpuVars
              ELSE /\ gpus' = gs
                   /\ physical_device_' = SelectPhysicalDevice(gs, physical_device_)
                   /\ SetupOk("SelectGPU", "SelectQueueFamily")
  /\ UNCHANGED <<app_window, show_called, exit_code, out_stdout, winVars,
                 swapVars, envVars, DisplaySize, teardown_log, iter_log,
                 on_gui_calls, draw_done, close_called, quit_processed>>

\* vkGetPhysicalDeviceQueueFamilyProperties + find_if. With a null
\* physical_device_ the call is undefined: the loader dereferences or
\* rejects the handle and the process dies, or it reports nothing and no
\* graphics queue is found.
SelectQueueFamily ==
  /\ pc = "SelectQueueFamily"
  /\ IF physical_device_ = 0
       THEN \/ pc' = "terminated" /\ UNCHANGED <<exc, setup_log>>
            \/ SetupThrow(GUIError(DefaultErrorCode))
       ELSE \E found \in BOOLEAN :
              IF found THEN SetupOk("SelectQueueFamily", "vkCreateDevice")
              ELSE SetupThrow(GUIError(DefaultErrorCode))
  /\ gpus' = <<>>
  /\ UNCHANGED <<appVars, winVars, physical_device_, swapVars, envVars,
                 DisplaySize, teardown_log, iter_log, on_gui_calls, draw_done,
                 close_called, quit_processed,
                 vk_log>>

vkCreateDevice ==
  /\ pc = "vkCreateDevice"
  /\ \E err \in VkResults :
       SetupVkCall(err, "vkCreateDevice", "vkCreateDescriptorPool")
  /\ UNCHANGED <<app_window, show_called, exit_code, out_stdout, winVars,
                 gpuVars, swapVars, envVars, DisplaySize, teardown_log,
                 iter_log, on_gui_calls, draw_done, close_called,
                 quit_processed>>

\* the last step of Vulkan's constructor: make_unique returns, vulkan_ is set
vkCreateDescriptorPool ==
  /\ pc = "vkCreateDescriptorPool"
  /\ \E err \in VkResults :
       /\ SetupVkCall(err, "vkCreateDescriptorPool", "create_surface")
       /\ vulkan_' = IF check_vk_result(err).throws THEN vulkan_ ELSE "valid"
  /\ UNCHANGED <<app_window, show_called, exit_code, out_stdout, running_,
                 window_, guard_armed, gpuVars, swapVars, envVars, DisplaySize,
                 teardown_log, iter_log, on_gui_calls, draw_done, close_called,
                 quit_processed>>

create_surface ==
  /\ pc = "create_surface"
  /\ \E created \in BOOLEAN :
       IF created THEN SetupOk("create_surface", "create_framebuffers")
       ELSE SetupThrow(GUIError(DefaultErrorCode))
  /\ UNCHANGED <<appVars, winVars, gpuVars, swapVars, envVars, DisplaySize,
                 teardown_log, iter_log, on_gui_calls, draw_done, close_called,
                 quit_processed,
                 vk_log>>

\* create_framebuffers -> setup_window: WSI check, min_image_count_ check,
\* ImGui_ImplVulkanH_CreateOrResizeWindow (the driver picks ImageCount)
create_framebuffers ==
  /\ pc = "create_framebuffers"
  /\ \E wsi \in BOOLEAN, n \in min_image_count_..MaxImageCount :
       IF ~wsi \/ min_image_count_ < 2
         THEN /\ SetupThrow(GUIError(DefaultErrorCode))
              /\ UNCHANGED <<ImageCount, fences>>
         ELSE /\ ImageCount' = n
              /\ fences' = NewFences(n)
              /\ SetupOk("create_framebuffers", "CreateContext")
  /\ UNCHANGED <<appVars, winVars, gpuVars, swap_chain_rebuild_,
                 SemaphoreIndex, FrameIndex, envVars, DisplaySize,
                 teardown_log, iter_log, on_gui_calls, draw_done, close_called,
                 quit_processed,
                 vk_log>>

CreateContext ==
  /\ pc = "CreateContext"
  /\ SetupOk("CreateContext", "init")
  /\ UNCHANGED <<appVars, winVars, gpuVars, swapVars, envVars, DisplaySize,
                 teardown_log, iter_log, on_gui_calls, draw_done, close_called,
                 quit_processed,
                 vk_log>>

\* Vulkan::init: the backends report Vulkan errors through CheckVkResultFn
init ==
  /\ pc = "init"
  /\ \E err \in VkResults : SetupVkCall(err, "init", "upload_fonts")
  /\ UNCHANGED <<app_window, show_called, exit_code, out_stdout, winVars,
                 gpuVars, swapVars, envVars, DisplaySize, teardown_log,
                 iter_log, on_gui_calls, draw_done, close_called,
                 quit_processed>>

\* upload_fonts, then running_ = true and the scope guard is constructed
upload_fonts ==
  /\ pc = "upload_fonts"
  /\ \E err \in VkResults :
       /\ SetupVkCall(err, "upload_fonts", "loop")
       /\ running_' = IF check_vk_result(err).throws THEN running_ ELSE TRUE
       /\ guard_armed' = ~check_vk_result(err).throws
  /\ UNCHANGED <<app_window, show_called, exit_code, out_stdout, window_,
                 vulkan_, gpuVars, swapVars, envVars, DisplaySize,
                 teardown_log, iter_log, on_gui_calls, draw_done, close_called,
                 quit_processed>>

\* while (running_) { draw(); }  -- leaving the loop destroys the guard
LoopCheck ==
  /\ pc = "loop"
  /\ IF running_
       THEN /\ pc' = "poll"
            /\ on_gui_calls' = 0
            /\ draw_done' = FALSE
            /\ iter_log' = <<>>
       ELSE /\ pc' = "guard"
            /\ UNCHANGED <<on_gui_calls, draw_done, iter_log>>
  /\ UNCHANGED <<exc, appVars, winVars, gpuVars, swapVars, envVars,
                 DisplaySize, setup_log, teardown_log, close_called,
                 quit_processed,
                 vk_log>>

(* --------------------------- Window::draw ------------------------------ *)
\* an exception leaves draw() and show(): the scope guard runs first
DrawThrow(e) ==
  /\ exc' = e
  /\ pc' = "guard"

\* variant: draw() never rebuilds the swapchain
ResizeNeeded_Never(rebuild, size) == FALSE

\* Vulkan::maybe_resize_swap_chain rebuilds the swapchain
ResizeNeeded(rebuild, size) == rebuild /\ size.w > 0 /\ size.h > 0

\* while (SDL_PollEvent(&event)): no event ends draw(); an event is handed
\* to ImGui, decides running_, then maybe_resize_swap_chain and the three
\* NewFrame calls run.  ImGui_ImplVulkanH_CreateOrResizeWindow reports Vulkan
\* errors through check_vk_result and lets the driver pick ImageCount.
Poll ==
  /\ pc = "poll"
  /\ IF events = <<>>
       THEN /\ pc' = "loop"
            /\ draw_done' = TRUE
            /\ UNCHANGED <<exc, events, running_, swapVars, DisplaySize,
                           iter_log, quit_processed, out_stderr, vk_log>>
       ELSE /\ events' = Tail(events)
            /\ running_' = KeepsRunning(Head(events))
            /\ quit_processed' = (quit_processed \/ ~KeepsRunning(Head(events)))
            /\ UNCHANGED <<draw_done, SemaphoreIndex>>
            /\ IF ResizeNeeded(swap_chain_rebuild_, win_size)
                 THEN \E err \in VkResults, n \in min_image_count_..MaxImageCount :
                        /\ out_stderr' = out_stderr \cup Warn(err)
                        /\ vk_log' =
                             <<VkCall("ImGui_ImplVulkanH_CreateOrResizeWindow",
                                      err, TRUE)>>
                        /\ IF check_vk_result(err).throws
                             THEN /\ DrawThrow(GUIError(err))
                                  /\ iter_log' = <<"ProcessEvent",
                                                   "maybe_resize_swap_chain">>
                                  /\ UNCHANGED <<swap_chain_rebuild_, FrameIndex,
                                                 ImageCount, fences, DisplaySize>>
                             ELSE /\ ImageCount' = n
                                  /\ fences' = NewFences(n)
                                  /\ FrameIndex' = 0
                                  /\ swap_chain_rebuild_' = FALSE
                                  /\ \E d \in DisplaySizes : DisplaySize' = d
                                  /\ iter_log' = <<"ProcessEvent",
                                                   "maybe_resize_swap_chain",
                                                   "NewFrame">>
                                  /\ pc' = "on_gui"
                                  /\ exc' = exc
                 ELSE /\ \E d \in DisplaySizes : DisplaySize' = d
                      /\ iter_log' = <<"ProcessEvent", "maybe_resize_swap_chain",
                                       "NewFrame">>
                      /\ vk_log' = <<>>
                      /\ pc' = "on_gui"
                      /\ UNCHANGED <<exc, swap_chain_rebuild_, FrameIndex,
                                     ImageCount, fences, out_stderr>>
  /\ UNCHANGED <<app_window, show_called, exit_code, out_stdout, window_,
                 vulkan_, guard_armed, gpuVars, arrivals, win_size, setup_log,
                 teardown_log, on_gui_calls, close_called>>

\* what a user's on_gui() may do
GuiBehaviours == {"return", "close", "throw GUIError", "throw std", "throw other"}

\* codes a user's on_gui() may put in the GUIError it throws
UserErrorCodes == {7}

GuiException(b) ==
  IF b = "throw GUIError" THEN GUIError(CHOOSE c \in UserErrorCodes : TRUE)
  ELSE IF b = "throw std" THEN StdException
  ELSE UnknownObject

\* variant: < in place of <=
is_minimized_Strict(d) == d.x < 0 \/ d.y < 0

\* variant: && in place of ||
is_minimized_Both(d) == d.x <= 0 /\ d.y <= 0

\* const bool is_minimized = DisplaySize.x <= 0 || DisplaySize.y <= 0
is_minimized(d) == d.x <= 0 \/ d.y <= 0

\* on_gui(); ImGui::Render(); the is_minimized test
OnGui ==
  /\ pc = "on_gui"
  /\ on_gui_calls' = on_gui_calls + 1
  /\ \E b \in GuiBehaviours :
       /\ running_' = IF b = "close" THEN FALSE ELSE running_
       /\ close_called' = (close_called \/ b = "close")
       /\ IF b \in {"return", "close"}
            THEN /\ exc' = exc
                 /\ iter_log' = iter_log \o <<"on_gui", "Render">>
                 /\ pc' = IF is_minimized(DisplaySize) THEN "poll"
                          ELSE "before_render_frame"
            ELSE /\ DrawThrow(GuiException(b))
                 /\ iter_log' = Append(iter_log, "on_gui")
  /\ UNCHANGED <<appVars, window_, vulkan_, guard_armed, gpuVars, swapVars,
                 envVars, DisplaySize, setup_log, teardown_log, draw_done,
                 quit_processed,
                 vk_log>>

\* the virtual hook: the default does nothing, an override may throw
BeforeRenderFrame ==
  /\ pc = "before_render_frame"
  /\ iter_log' = Append(iter_log, "before_render_frame")
  /\ \E throws \in BOOLEAN :
       IF throws THEN DrawThrow(StdException)
       ELSE pc' = "render_frame" /\ exc' = exc
  /\ UNCHANGED <<appVars, winVars, gpuVars, swapVars, envVars, DisplaySize,
                 setup_log, teardown_log, on_gui_calls, draw_done,
                 close_called, quit_processed,
                 vk_log>>

\* variant: VK_SUBOPTIMAL_KHR is treated as an ordinary positive result
RebuildResults_OutOfDateOnly == {VK_ERROR_OUT_OF_DATE_KHR}

RebuildResults == {VK_ERROR_OUT_OF_DATE_KHR, VK_SUBOPTIMAL_KHR}

\* vkAcquireNextImageKHR with the ImageAcquiredSemaphore of set sem
AcquireCall(acq, checked, sem) ==
  VkFrameCall("vkAcquireNextImageKHR", acq, checked, sem, -1, "n/a")

\* the checked Vulkan calls render_frame makes on the acquired frame
RenderStages ==
  <<"vkWaitForFences", "vkResetFences", "vkResetCommandPool",
    "vkBeginCommandBuffer", "vkEndCommandBuffer", "vkQueueSubmit">>

\* the calls made when call number stage returns err and the others succeed:
\* a negative err throws, so the calls after it are not made.  Of these calls
\* only vkWaitForFences has a result that is neither 0 nor negative.
RenderCalls(sem, image, fence, stage, err) ==
  [k \in 1..(IF check_vk_result(err).throws THEN stage ELSE Len(RenderStages)) |->
     VkFrameCall(RenderStages[k], IF k = stage THEN err ELSE VK_SUCCESS, TRUE,
                 sem, image, IF k = 1 THEN fence ELSE "n/a")]

\* variant: vkQueueSubmit called without the frame's fence (as upload_fonts does)
FenceStateAfterSubmit_NoFence(f) == f

\* vkQueueSubmit(queue_, 1, &info, fd->Fence): the fence has a submission
\* pending that signals it
FenceStateAfterSubmit(f) == "pending"

\* the frame's fence when render_frame ends: the wait returns with the fence
\* signalled, vkResetFences unsignals it, vkQueueSubmit leaves it pending
FenceAfterRender(f, stage, err) ==
  IF ~check_vk_result(err).throws THEN FenceStateAfterSubmit("unsignaled")
  ELSE IF stage = 1 THEN f
  ELSE IF stage = 2 THEN "signaled"
  ELSE "unsignaled"

\* Vulkan::render_frame: acquire, then the checked calls up to vkQueueSubmit.
\* Waiting on a fence that is unsignalled with nothing pending never returns.
RenderFrame ==
  /\ pc = "render_frame"
  /\ iter_log' = Append(iter_log, "render_frame")
  /\ \E acq \in SwapResults :
       IF acq \in RebuildResults
         THEN /\ swap_chain_rebuild_' = TRUE
              /\ vk_log' = <<AcquireCall(acq, FALSE, SemaphoreIndex)>>
              /\ pc' = "present_frame"
              /\ UNCHANGED <<exc, FrameIndex, fences, out_stderr>>
         ELSE IF check_vk_result(acq).throws
           THEN /\ DrawThrow(GUIError(acq))
                /\ vk_log' = <<AcquireCall(acq, TRUE, SemaphoreIndex)>>
                /\ UNCHANGED <<swap_chain_rebuild_, FrameIndex, fences,
                               out_stderr>>
           ELSE \E image \in 0..(ImageCount - 1), stage \in 1..Len(RenderStages),
                   err \in VkResults :
                  /\ err >= 0 => stage = 1
                  /\ FrameIndex' = image
                  /\ UNCHANGED swap_chain_rebuild_
                  /\ IF fences[image + 1] = "unsignaled"
                       THEN /\ pc' = "blocked"
                            /\ vk_log' =
                                 <<AcquireCall(acq, TRUE, SemaphoreIndex),
                                   VkFrameCall("vkWaitForFences", VK_SUCCESS,
                                               FALSE, SemaphoreIndex, image,
                                               "unsignaled")>>
                            /\ out_stderr' = out_stderr \cup Warn(acq)
                            /\ UNCHANGED <<exc, fences>>
                       ELSE /\ out_stderr' = out_stderr \cup Warn(acq) \cup Warn(err)
                            /\ vk_log' =
                                 <<AcquireCall(acq, TRUE, SemaphoreIndex)>> \o
                                 RenderCalls(SemaphoreIndex, image,
                                             fences[image + 1], stage, err)
                            /\ fences' =
                                 [fences EXCEPT ![image + 1] =
                                    FenceAfterRender(@, stage, err)]
                            /\ IF check_vk_result(err).throws
                                 THEN DrawThrow(GUIError(err))
                                 ELSE pc' = "present_frame" /\ exc' = exc
  /\ UNCHANGED <<app_window, show_called, exit_code, out_stdout, winVars,
                 gpuVars, SemaphoreIndex, ImageCount, envVars, DisplaySize,
                 setup_log, teardown_log, on_gui_calls, draw_done,
                 close_called, quit_processed>>

\* variant: present_frame without its early return
PresentSkipped_Never(rebuild) == FALSE

\* if (swap_chain_rebuild_) return;
PresentSkipped(rebuild) == rebuild

\* vkQueuePresentKHR waits on the RenderCompleteSemaphore of set
\* SemaphoreIndex and presents image FrameIndex
PresentCall(err, checked) ==
  VkFrameCall("vkQueuePresentKHR", err, checked, SemaphoreIndex, FrameIndex,
              "n/a")

\* variant: the index is not wrapped
NextSemaphoreIndex_NoWrap(index, count) == index + 1

\* wd->SemaphoreIndex = (wd->SemaphoreIndex + 1) % wd->ImageCount
NextSemaphoreIndex(index, count) == (index + 1) % count

\* Vulkan::present_frame
PresentFrame ==
  /\ pc = "present_frame"
  /\ iter_log' = Append(iter_log, "present_frame")
  /\ IF PresentSkipped(swap_chain_rebuild_)
       THEN /\ pc' = "poll"
            /\ vk_log' = <<>>
            /\ UNCHANGED <<exc, swap_chain_rebuild_, SemaphoreIndex,
                           out_stderr>>
       ELSE \E err \in SwapResults :
              IF err \in RebuildResults
                THEN /\ swap_chain_rebuild_' = TRUE
                     /\ vk_log' = <<PresentCall(err, FALSE)>>
                     /\ pc' = "poll"
                     /\ UNCHANGED <<exc, SemaphoreIndex, out_stderr>>
                ELSE /\ out_stderr' = out_stderr \cup Warn(err)
                     /\ vk_log' = <<PresentCall(err, TRUE)>>
                     /\ swap_chain_rebuild_' = swap_chain_rebuild_
                     /\ IF check_vk_result(err).throws
                          THEN DrawThrow(GUIError(err)) /\ UNCHANGED SemaphoreIndex
                          ELSE /\ SemaphoreIndex' =
                                    NextSemaphoreIndex(SemaphoreIndex, ImageCount)
                               /\ pc' = "poll"
                               /\ exc' = exc
  /\ UNCHANGED <<app_window, show_called, exit_code, out_stdout, winVars,
                 gpuVars, FrameIndex, ImageCount, fences, envVars, DisplaySize,
                 setup_log, teardown_log, on_gui_calls, draw_done,
                 close_called, quit_processed>>

(* --------------------------- scope_guard ------------------------------- *)
\* variant: Vulkan::cleanup called before Vulkan::cleanup_window
TeardownOrder_CleanupFirst ==
  <<"vkDeviceWaitIdle", "ImGui_ImplVulkan_Shutdown", "ImGui_ImplSDL2_Shutdown",
    "DestroyContext", "vkDestroyDescriptorPool", "vkDestroyDevice",
    "vkDestroyInstance", "cleanup_window", "SDL_DestroyWindow">>

\* the calls of the guard's lambda, in order
TeardownOrder ==
  <<"vkDeviceWaitIdle", "ImGui_ImplVulkan_Shutdown", "ImGui_ImplSDL2_Shutdown",
    "DestroyContext", "cleanup_window", "vkDestroyDescriptorPool",
    "vkDestroyDevice", "vkDestroyInstance", "SDL_DestroyWindow">>

\* vulkan_ = nullptr and SDL_DestroyWindow: the Vulkan object's members and
\* the window are gone; their variables go back to the values they have
\* before construction
Destroyed ==
  /\ gpus' = <<>>
  /\ physical_device_' = 0
  /\ swap_chain_rebuild_' = FALSE
  /\ SemaphoreIndex' = 0
  /\ FrameIndex' = 0
  /\ ImageCount' = 0
  /\ fences' = <<>>
  /\ win_size' = [w |-> 1, h |-> 1]

\* ~scope_guard() noexcept { f_(); }: Vulkan::shutdown checks vkDeviceWaitIdle
\* with the throwing check_vk_result; an exception leaving the noexcept
\* destructor calls std::terminate
Guard ==
  /\ pc = "guard"
  /\ \E err \in VkResults :
       /\ out_stderr' = out_stderr \cup Warn(err)
       /\ vk_log' = <<VkCall("vkDeviceWaitIdle", err, TRUE)>>
       /\ IF check_vk_result(err).throws
            THEN /\ teardown_log' = teardown_log \o <<"vkDeviceWaitIdle">>
                 /\ pc' = "terminated"
                 /\ UNCHANGED <<window_, vulkan_, gpuVars, swapVars, win_size>>
            ELSE /\ teardown_log' = teardown_log \o TeardownOrder
                 /\ window_' = "null"
                 /\ vulkan_' = "null"
                 /\ Destroyed
                 /\ pc' = "catch"
  /\ UNCHANGED <<exc, app_window, show_called, exit_code, out_stdout, running_,
                 guard_armed, events, arrivals, DisplaySize, setup_log,
                 iter_log, on_gui_calls, draw_done, close_called,
                 quit_processed>>

(* -------------------------- specification ------------------------------ *)
Next ==
  \/ EventArrives
  \/ WindowResized
  \/ RunStart
  \/ RunFinish
  \/ SDL_CreateWindow
  \/ vkCreateInstance
  \/ SelectGPU
  \/ SelectQueueFamily
  \/ vkCreateDevice
  \/ vkCreateDescriptorPool
  \/ create_surface
  \/ create_framebuffers
  \/ CreateContext
  \/ init
  \/ upload_fonts
  \/ LoopCheck
  \/ Poll
  \/ OnGui
  \/ BeforeRenderFrame
  \/ RenderFrame
  \/ PresentFrame
  \/ Guard

\* "blocked" (a fence wait that never returns) and "terminated" have no step
Spec == Init /\ [][Next]_vars

(* ------------------------------ claims --------------------------------- *)
Called(log, call) == \E i \in 1..Len(log) : log[i] = call
CalledOnce(log, call) ==
  \E i \in 1..Len(log) :
    log[i] = call /\ \A j \in 1..Len(log) : log[j] = call => j = i

\* C1: run() returns 0 when show() returns, the GUIError's error() when
\* show() throws a GUIError, -1 for another std::exception, -2 for any other
\* object, and -3 without calling show() when the window pointer is null.
C1_ExitCodeOfRun ==
  pc = "done" =>
    /\ (app_window = "null" => exit_code = -3 /\ ~show_called)
    /\ (app_window # "null" => show_called)
    /\ (app_window # "null" /\ exc.kind = "none" => exit_code = 0)
    /\ (exc.kind = "GUIError" => exit_code = exc.code)
    /\ (exc.kind = "std" => exit_code = -1)
    /\ (exc.kind = "other" => exit_code = -2)

\* run() returned the Vulkan error code carried by a GUIError
C1_Witness ==
  pc = "done" /\ exc.kind = "GUIError" /\ exc.code = -4 /\ exit_code = -4

\* C2: every exception run() catches, and the missing window, is reported
\* on stderr, and nothing about a caught exception goes to stdout.
C2_CaughtReportedOnStderr ==
  pc = "done" =>
    /\ (app_window = "null" => "No window given" \in out_stderr)
    /\ (exc.kind # "none" =>
          /\ out_stdout = {}
          /\ out_stderr \cap {"GUIError", "Exception caught",
                              "Unknown thrown object!"} # {})

\* C3: once close() has been called while show() is running, is_running()
\* stays false, whatever events are queued or arrive afterwards.
C3_CloseStaysClosed ==
  [][(close_called /\ ~running_) => ~running_']_vars

\* C4: every draw() call made by show()'s loop invokes on_gui() exactly
\* once, however many events are pending.
C4_OnGuiOncePerDraw ==
  draw_done => on_gui_calls = 1

\* C5: on_gui() is never called before every setup step of show() has
\* completed without error, in the order of the source.
C5_SetupBeforeOnGui ==
  (pc = "on_gui" \/ on_gui_calls > 0 \/ Len(iter_log) > 0) =>
    /\ setup_log =
         <<"SDL_CreateWindow", "vkCreateInstance", "SelectGPU",
           "SelectQueueFamily", "vkCreateDevice", "vkCreateDescriptorPool",
           "create_surface", "create_framebuffers", "CreateContext", "init",
           "upload_fonts">>
    /\ (pc = "on_gui" => window_ = "valid" /\ vulkan_ = "valid")

\* on_gui() has run once and the frame goes on to be rendered
C5_Witness ==
  pc = "before_render_frame" /\ on_gui_calls = 1 /\ Len(setup_log) = 11

C7_DiscreteElseFirst ==
  (pc = "SelectQueueFamily" /\ Len(gpus) > 0) =>
    /\ physical_device_ # 0
    /\ IF \E i \in 1..Len(gpus) : gpus[i] = "DISCRETE_GPU"
         THEN /\ gpus[physical_device_] = "DISCRETE_GPU"
              /\ \A j \in 1..(physical_device_ - 1) : gpus[j] # "DISCRETE_GPU"
         ELSE physical_device_ = 1

\* C8: when show() exits after its setup completed, the teardown has run
\* exactly once, in order, and window_ and vulkan_ are null; it does not run
\* while the loop is running.
C8_TeardownOnExit ==
  /\ (pc \in {"catch", "done"} /\ guard_armed =>
        /\ teardown_log =
             <<"vkDeviceWaitIdle", "ImGui_ImplVulkan_Shutdown",
               "ImGui_ImplSDL2_Shutdown", "DestroyContext", "cleanup_window",
               "vkDestroyDescriptorPool", "vkDestroyDevice",
               "vkDestroyInstance", "SDL_DestroyWindow">>
        /\ window_ = "null"
        /\ vulkan_ = "null")
  /\ (pc \in LoopPcs \cup {"guard"} => teardown_log = <<>>)

\* show() left through an exception of on_gui() and the teardown has run
C8_Witness ==
  /\ pc = "catch"
  /\ guard_armed
  /\ exc.kind = "other"
  /\ Len(teardown_log) = 9

\* C9: once draw() has processed SDL_QUIT or this window's close event,
\* show() leaves its loop, whatever events are queued behind it: when that
\* draw() returns, running_ is false.
C9_QuitEndsLoop ==
  (draw_done /\ quit_processed) => ~running_

\* C10: every failure ends in one of run()'s return statements, also a
\* failure while the teardown scope guard is running: the process is never
\* terminated there.
C10_RunAlwaysReturns ==
  ~(pc = "terminated" /\ guard_armed)

\* the Vulkan calls the step made (vk_log holds the calls of the latest step
\* that made any)
NewCalls == IF vk_log' = vk_log THEN <<>> ELSE vk_log'
\* the results among them that were handed to check_vk_result
CheckedResults ==
  {NewCalls[i].result : i \in {j \in 1..Len(NewCalls) : NewCalls[j].checked}}

\* the step ends by leaving its function through an exception
Unwinds ==
  IF pc = "guard" THEN pc' = "terminated" ELSE pc' \in {"catch", "guard"}

\* the one throw of a step that makes Vulkan calls which is not
\* check_vk_result's: "Could not find any GPUs!"
NoGpusThrow == pc = "SelectGPU" /\ exc' = GUIError(DefaultErrorCode)

\* C11: check_vk_result has three outcomes.  When every result a step checks
\* is 0, nothing is written to stderr and nothing is thrown.  A negative
\* result throws a GUIError whose error() is that result, and no call is made
\* after it (inside the scope guard the throw ends the process).  A positive
\* result only writes the warning to stderr: nothing is thrown and the
\* caller goes on.
C11_CheckVkResult ==
  [][ /\ (CheckedResults = {VK_SUCCESS}) =>
           /\ out_stderr' = out_stderr
           /\ exc' = exc \/ NoGpusThrow
           /\ ~Unwinds \/ NoGpusThrow
      /\ \A i \in 1..Len(NewCalls) :
           (NewCalls[i].checked /\ NewCalls[i].result < 0) =>
             /\ i = Len(NewCalls)
             /\ Unwinds
             /\ pc # "guard" => exc' = GUIError(NewCalls[i].result)
      /\ ((\E r \in CheckedResults : r > 0) /\ (\A r \in CheckedResults : r >= 0)) =>
           /\ VkWarning \in out_stderr'
           /\ exc' = exc \/ NoGpusThrow
           /\ ~Unwinds \/ NoGpusThrow
    ]_vars

C11_Witness ==
  /\ pc = "present_frame"
  /\ exc = NoExc
  /\ VkWarning \in out_stderr
  /\ \E i \in 1..Len(vk_log) : vk_log[i].checked /\ vk_log[i].result > 0
  /\ \E i \in 1..Len(vk_log) : vk_log[i].call = "vkQueueSubmit"

\* the step called vkAcquireNextImageKHR or vkQueuePresentKHR and got r
SwapCallReturned(call, r) ==
  \E i \in 1..Len(NewCalls) : NewCalls[i].call = call /\ NewCalls[i].result = r

\* C12: swap_chain_rebuild_ starts false.  While the Vulkan object lives it
\* becomes true exactly when vkAcquireNextImageKHR in render_frame or
\* vkQueuePresentKHR in present_frame returns VK_ERROR_OUT_OF_DATE_KHR or
\* VK_SUBOPTIMAL_KHR, and nothing is thrown for those results.  It becomes
\* false only in maybe_resize_swap_chain, only with a window width and height
\* both above 0, and only together with the recreation of the swapchain and
\* FrameIndex = 0.  Called with the flag false or with a zero width or height,
\* maybe_resize_swap_chain changes nothing.
C12_RebuildFlag ==
  /\ ~swap_chain_rebuild_
  /\ [][ vulkan_' # "null" =>
          /\ \A r \in {VK_ERROR_OUT_OF_DATE_KHR, VK_SUBOPTIMAL_KHR} :
               (\/ pc = "render_frame" /\ SwapCallReturned("vkAcquireNextImageKHR", r)
                \/ pc = "present_frame" /\ SwapCallReturned("vkQueuePresentKHR", r)) =>
                 /\ swap_chain_rebuild_'
                 /\ exc' = exc
                 /\ ~Unwinds
          /\ (~swap_chain_rebuild_ /\ swap_chain_rebuild_') =>
               \E r \in {VK_ERROR_OUT_OF_DATE_KHR, VK_SUBOPTIMAL_KHR} :
                 \/ pc = "render_frame" /\ SwapCallReturned("vkAcquireNextImageKHR", r)
                 \/ pc = "present_frame" /\ SwapCallReturned("vkQueuePresentKHR", r)
          /\ (swap_chain_rebuild_ /\ ~swap_chain_rebuild_') =>
               /\ pc = "poll" /\ events # <<>>
               /\ win_size.w > 0 /\ win_size.h > 0
               /\ \E r \in {e \in VkResults : e >= 0} :
                    SwapCallReturned("ImGui_ImplVulkanH_CreateOrResizeWindow", r)
               /\ FrameIndex' = 0
          /\ (/\ pc = "poll" /\ events # <<>>
              /\ ~swap_chain_rebuild_ \/ win_size.w = 0 \/ win_size.h = 0) =>
               /\ UNCHANGED swapVars
               /\ NewCalls = <<>>
               /\ exc' = exc
      ]_vars

C12_Witness ==
  /\ pc = "on_gui"
  /\ ~swap_chain_rebuild_
  /\ FrameIndex = 0
  /\ Len(vk_log) = 1
  /\ vk_log[1].call = "ImGui_ImplVulkanH_CreateOrResizeWindow"
  /\ vk_log[1].result >= 0

\* C13: vkQueuePresentKHR is never issued while swap_chain_rebuild_ is true,
\* and whenever present_frame issues it, the render_frame of the same
\* iteration (whose calls vk_log still holds) has acquired an image with the
\* same semaphore set and submitted a command buffer for that image, and the
\* present waits on the RenderCompleteSemaphore of that set and presents
\* that image.
C13_PresentOnlyRendered ==
  [][ \A i \in 1..Len(NewCalls) :
        NewCalls[i].call = "vkQueuePresentKHR" =>
          /\ pc = "present_frame"
          /\ ~swap_chain_rebuild_
          /\ iter_log[Len(iter_log)] = "render_frame"
          /\ \E a, q \in 1..Len(vk_log) :
               /\ a < q
               /\ vk_log[a].call = "vkAcquireNextImageKHR"
               /\ vk_log[a].result >= 0
               /\ vk_log[a].sem = NewCalls[i].sem
               /\ vk_log[q].call = "vkQueueSubmit"
               /\ vk_log[q].result >= 0
               /\ vk_log[q].sem = NewCalls[i].sem
               /\ vk_log[q].image = NewCalls[i].image
               /\ vk_log[q].image = FrameIndex
    ]_vars

C13_Witness ==
  /\ pc = "poll"
  /\ Len(vk_log) = 1
  /\ vk_log[1].call = "vkQueuePresentKHR"
  /\ vk_log[1].result = VK_SUCCESS
  /\ vk_log[1].image = 1
  /\ iter_log[Len(iter_log)] = "present_frame"

\* the assumption of C14: the display size ImGui reports in an iteration is
\* non-positive exactly when the window's width or height is 0
DisplayMatchesWindow ==
  (DisplaySize.x <= 0 \/ DisplaySize.y <= 0) <=> (win_size.w = 0 \/ win_size.h = 0)

\* C14: when the display size is non-positive exactly when the window's width
\* or height is 0, render_frame is never entered, and so never calls
\* vkAcquireNextImageKHR, while swap_chain_rebuild_ is true.
C14_NoAcquireWhileRebuild ==
  (pc = "render_frame" /\ DisplayMatchesWindow) => ~swap_chain_rebuild_

\* render_frame is about to run in an iteration that rebuilt the swapchain
C14_Witness ==
  /\ pc = "render_frame"
  /\ DisplayMatchesWindow
  /\ Len(vk_log) = 1
  /\ vk_log[1].call = "ImGui_ImplVulkanH_CreateOrResizeWindow"

\* present_frame called vkQueuePresentKHR and went on to its last statement:
\* the result was neither a rebuild result nor negative
PresentCompleted ==
  /\ pc = "present_frame"
  /\ \E r \in SwapResults :
       /\ r >= 0
       /\ r \notin {VK_ERROR_OUT_OF_DATE_KHR, VK_SUBOPTIMAL_KHR}
       /\ SwapCallReturned("vkQueuePresentKHR", r)

\* C15: while the Vulkan object lives, SemaphoreIndex changes only at the end
\* of a present_frame whose vkQueuePresentKHR result is neither
\* VK_ERROR_OUT_OF_DATE_KHR nor VK_SUBOPTIMAL_KHR nor negative, and then
\* becomes (SemaphoreIndex + 1) mod ImageCount.  A present_frame that is
\* skipped, flags a rebuild or throws leaves it unchanged, and so does
\* render_frame.  If 0 <= SemaphoreIndex < ImageCount held before a
\* present_frame it holds after it.
C15_SemaphoreIndex ==
  [][ vulkan_' # "null" =>
        /\ SemaphoreIndex' # SemaphoreIndex => PresentCompleted
        /\ PresentCompleted =>
             SemaphoreIndex' = (SemaphoreIndex + 1) % ImageCount
        /\ (pc = "present_frame" /\ ~PresentCompleted) =>
             SemaphoreIndex' = SemaphoreIndex
        /\ pc = "render_frame" => SemaphoreIndex' = SemaphoreIndex
        /\ (pc = "present_frame" /\ SemaphoreIndex \in 0..(ImageCount - 1)) =>
             SemaphoreIndex' \in 0..(ImageCount' - 1)
    ]_vars

\* a present that wrapped the index round to 0
C15_Witness ==
  /\ pc = "poll"
  /\ Len(vk_log) = 1
  /\ vk_log[1].call = "vkQueuePresentKHR"
  /\ vk_log[1].checked
  /\ vk_log[1].sem = ImageCount - 1
  /\ SemaphoreIndex = 0

\* C16: the unbounded vkWaitForFences cannot block forever.  render_frame
\* waits on the frame's fence before it resets the command pool and records
\* again; every vkResetFences is followed in the same call by a
\* vkQueueSubmit that signals the fence, unless an exception ends the render
\* loop; so a fence render_frame waits on is signalled (as created) or has a
\* submission pending, and no wait is left without a return.
C16_FenceWaitReturns ==
  /\ pc # "blocked"
  /\ pc \in LoopPcs => \A f \in 1..Len(fences) : fences[f] \in {"signaled", "pending"}
  /\ \A i \in 1..Len(vk_log) :
       /\ vk_log[i].call = "vkWaitForFences" =>
            vk_log[i].fence \in {"signaled", "pending"}
       /\ vk_log[i].call \in {"vkResetCommandPool", "vkBeginCommandBuffer"} =>
            \E j \in 1..(i - 1) :
              /\ vk_log[j].call = "vkWaitForFences"
              /\ vk_log[j].image = vk_log[i].image
       /\ vk_log[i].call = "vkResetFences" =>
            \/ \E j \in (i + 1)..Len(vk_log) :
                 /\ vk_log[j].call = "vkQueueSubmit"
                 /\ vk_log[j].result >= 0
                 /\ vk_log[j].image = vk_log[i].image
                 /\ fences[vk_log[i].image + 1] = "pending"
            \/ pc = "guard" /\ exc # NoExc

\* render_frame waited on the fence of a frame whose earlier submission is
\* pending, and submitted again
C16_Witness ==
  /\ pc = "present_frame"
  /\ \E i \in 1..Len(vk_log) :
       /\ vk_log[i].call = "vkWaitForFences"
       /\ vk_log[i].fence = "pending"
  /\ \E i \in 1..Len(vk_log) : vk_log[i].call = "vkQueueSubmit"

\* what every iteration that gets past on_gui() runs, minimised or not
FrameCalls ==
  <<"ProcessEvent", "maybe_resize_swap_chain", "NewFrame", "on_gui", "Render">>

====
